---- MODULE Spec2Model ----
(***************************************************************************)
(* Pagination drivers of marketstack-rs (src/api/paged): the policy        *)
(* (pagination.rs), the eager collector Paged::query_async                 *)
(* (all_at_once.rs), the lazy iterator LazilyPagedIter and the sync        *)
(* collector Paged::query = iter().collect() (lazy.rs).                    *)
(*                                                                         *)
(* One behaviour is one paginated query of one driver against one server.  *)
(* The server is the environment: every response is chosen freely from     *)
(* Responses(url).  Items are natural numbers: the item at position i of   *)
(* the remote data set is the number i, so a page served from position pos *)
(* with s items is <<pos+1, ..., pos+s>>.                                  *)
(*                                                                         *)
(* The module also models the dispatch of one endpoint without pagination  *)
(* (endpoint.rs, raw.rs, ignore.rs, error.rs; specification SpecDispatch)  *)
(* and the page-size setter of the endpoint builders (paged.rs, eod.rs;    *)
(* specification SpecBuilder).                                             *)
(***************************************************************************)
EXTENDS Integers, Sequences, FiniteSets, TLC

VARIABLES
    keyset,        \* Pageable::use_keyset_pagination() of the endpoint
    pagination,    \* Paged.pagination
    driver,        \* "async" (query_async), "iter" (LazilyPagedIter), "collect" (query)
    fault,         \* endpoint/client fault: "none", "url" (rest_endpoint), "body" (body())
    pc,            \* position of query_async / collect: "start", "loop", "done"
    page_num,      \* query_async: let mut page_num
    next_url,      \* query_async: let mut next_url (Option<Url>)
    results,       \* query_async: results accumulator
    ret,           \* value returned by query_async / query
    page_state,    \* LazilyPagedState.page_state: [total_results, next_page]
    current_page,  \* LazilyPagedIter.current_page
    out,           \* what the last next() returned
    yielded,       \* the Ok items next() has yielded so far, in order
    reqLog,        \* URLs of the requests handed to the transport, in order
    pageLog,       \* for each request, the length of the page parsed from its
                   \* response, NoPage when the fetch failed
    lastRsp,       \* the response to the latest request, as the server sent it
    lazyLog,       \* query_async and query side by side: the URLs the lazy
                   \* drain has requested (reqLog then holds query_async's)
    guard,         \* LazilyPagedState.page_state, the RwLock: "none", "read"
                   \* or "write" according to the guard held on it
    at,            \* LazilyPagedState::query step by step: where the call stands
    form,          \* the query form of a dispatch: "query", "raw", "ignore"
    auth,          \* RestClient::get_auth(): None or Some(token)
    endpoint,      \* the Endpoint dispatched: [method, path, parameters, body]
    clientLog,     \* the methods of the client the dispatch has called, in order
    sent,          \* the requests handed to Client::rest / rest_async, in order
    reply,         \* the response to the dispatched request
    answer,        \* the Result the dispatch returned
    limit_args,    \* the arguments the caller passes to EodBuilder::limit, in order
    builder_limit, \* EodBuilder.limit
    limit_ret,     \* what the latest call of EodBuilder::limit returned
    target,        \* the endpoint builder at work: "tickers", "eod", "intraday"
    setterLog,     \* the setters called on it, in order: [op, arg]
    tickers,       \* TickersBuilder: which of eod, splits, dividends are set
    symbols,       \* EodBuilder.symbols: Option<BTreeSet<_>>
    intraday,      \* IntradayBuilder: [latest, date], each an Option
    built          \* what build() returned

vars == <<keyset, pagination, driver, fault, pc, page_num, next_url, results, ret,
          page_state, current_page, out, yielded, reqLog, pageLog, lastRsp,
          lazyLog, guard, at,
          form, auth, endpoint, clientLog, sent, reply, answer,
          limit_args, builder_limit, limit_ret,
          target, setterLog, tickers, symbols, intraday, built>>

dispatchVars == <<form, auth, endpoint, clientLog, sent, reply, answer>>
builderVars == <<limit_args, builder_limit, limit_ret>>
endpointVars == <<target, setterLog, tickers, symbols, intraday, built>>
pagedVars == <<keyset, pagination, driver, pc, page_num, next_url, results, ret,
               page_state, current_page, out, yielded, reqLog, pageLog, lastRsp,
               lazyLog, guard, at>>

cfgVars == <<keyset, pagination, driver, fault>>
eagerVars == <<page_num, next_url, results>>
lazyVars == <<page_state, current_page, out, yielded>>
lockVars == <<guard, at>>

----------------------------------------------------------------------------
(* Bounds of the model *)

\* at most this many requests are sent in one behaviour
MaxRequests == 3

----------------------------------------------------------------------------
(* Option<T> as a sequence of length 0 or 1 *)

None == <<>>
Some(x) == <<x>>

Min(a, b) == IF a <= b THEN a ELSE b

----------------------------------------------------------------------------
(* pagination.rs *)

MAX_PAGE_SIZE == 1000

All == [kind |-> "All", limit |-> 0]
Limit(n) == [kind |-> "Limit", limit |-> n]

\* the policies a behaviour may start with
Policies == {All, Limit(0), Limit(45), Limit(2500)}

\* page_limit without the clamp to MAX_PAGE_SIZE
page_limit_Unclamped(self) ==
    IF self.kind = "All" THEN MAX_PAGE_SIZE ELSE self.limit

page_limit(self) ==
    IF self.kind = "All" THEN MAX_PAGE_SIZE ELSE Min(self.limit, MAX_PAGE_SIZE)

\* is_last_page without the short-page test
is_last_page_NoShortPage(self, last_page_size, num_results) ==
    IF self.kind = "Limit" THEN self.limit <= num_results ELSE FALSE

\* is_last_page with the limit compared strictly
is_last_page_StrictLimit(self, last_page_size, num_results) ==
    IF last_page_size < page_limit(self) THEN TRUE
    ELSE IF self.kind = "Limit" THEN self.limit < num_results
    ELSE FALSE

is_last_page(self, last_page_size, num_results) ==
    IF last_page_size < page_limit(self) THEN TRUE
    ELSE IF self.kind = "Limit" THEN self.limit <= num_results
    ELSE FALSE

----------------------------------------------------------------------------
(* URLs.  A URL is the endpoint's own URL plus the query pairs below; a    *)
(* pair that is absent is NoParam (page, cursor) or "" (pagination).       *)

NoParam == 0 - 1

Url(pp, pg, marker, cur) ==
    [per_page |-> pp, page |-> pg, pagination |-> marker, cursor |-> cur]

----------------------------------------------------------------------------
(* The server *)

\* position in the data set a request starts from
StartPos(url) ==
    IF url.cursor # NoParam THEN url.cursor
    ELSE IF url.page # NoParam THEN (url.page - 1) * url.per_page
    ELSE 0

\* sizes a page may have when per_page items were asked for
PageSizes(pp) == {s \in {0, 7, 20, pp} : s <= pp}

\* a response: transport outcome, Link header (sent to keyset requests
\* only), body shape, status, page size
Responses(url) ==
    [transport : BOOLEAN,
     link : IF url.pagination = "keyset" THEN {"none", "next", "bad"} ELSE {"none"},
     json : BOOLEAN, success : BOOLEAN, coerces : BOOLEAN,
     size : PageSizes(url.per_page)]

\* lastRsp before any request
NoRsp ==
    [transport |-> FALSE, link |-> "none", json |-> FALSE, success |-> FALSE,
     coerces |-> FALSE, size |-> 0]

Items(url, rsp) == [i \in 1..rsp.size |-> StartPos(url) + i]

\* the continuation URL of a response that carries one
NextLink(url, rsp) ==
    Url(url.per_page, NoParam, "keyset", StartPos(url) + rsp.size)

\* link_header::next_page_from_headers: Ok(None), Ok(Some(url)); "bad" is Err
next_page_from_headers(url, rsp) ==
    IF rsp.link = "next" THEN Some(NextLink(url, rsp)) ELSE None

----------------------------------------------------------------------------
(* Results *)

Pending == [tag |-> "Pending", items |-> <<>>, kind |-> ""]
Ok(items) == [tag |-> "Ok", items |-> items, kind |-> ""]
Err(kind) == [tag |-> "Err", items |-> <<>>, kind |-> kind]

\* Option<Result<T, E>> returned by next()
NotCalled == [tag |-> "NotCalled", item |-> 0, kind |-> ""]
OutNone == [tag |-> "None", item |-> 0, kind |-> ""]
OutOk(x) == [tag |-> "Ok", item |-> x, kind |-> ""]
OutErr(kind) == [tag |-> "Err", item |-> 0, kind |-> kind]

\* the classification without the test of the status
Classify_IgnoresStatus(rsp) ==
    IF ~rsp.transport THEN "Transport"
    ELSE IF keyset /\ rsp.link = "bad" THEN "LinkHeader"
    ELSE IF ~rsp.json THEN "ServiceError"
    ELSE IF ~rsp.coerces THEN "DataType"
    ELSE "ok"

\* what a response is classified as, in the order the code tests it:
\* transport error (?), Link header (keyset only), body not JSON, status, Vec<T>
Classify(rsp) ==
    IF ~rsp.transport THEN "Transport"
    ELSE IF keyset /\ rsp.link = "bad" THEN "LinkHeader"
    ELSE IF ~rsp.json THEN "ServiceError"
    ELSE IF ~rsp.success THEN "Remote"
    ELSE IF ~rsp.coerces THEN "DataType"
    ELSE "ok"

\* entry of pageLog
NoPage == 0 - 1
Parsed(rsp) == IF Classify(rsp) = "ok" THEN rsp.size ELSE NoPage

----------------------------------------------------------------------------
(* Dispatch of one endpoint: client, endpoint, request, response *)

\* the token of the client (Auth::Token)
Token == "123"

\* basic.rs: no parameters, no body
BasicEndpoint ==
    [method |-> "GET", path |-> "", parameters |-> <<>>, body |-> None]

\* eod.rs: Eod::builder().symbol("AAPL")
EodEndpoint ==
    [method |-> "GET", path |-> "eod",
     parameters |-> <<<<"symbols", "AAPL">>>>, body |-> None]

\* an Endpoint of the caller whose body() returns Some((mime, data))
BodyEndpoint ==
    [method |-> "POST", path |-> "custom", parameters |-> <<>>,
     body |-> Some([mime |-> "application/json", data |-> "{}"])]

\* the endpoints a behaviour may dispatch
Endpoints == {BasicEndpoint, EodEndpoint, BodyEndpoint}

\* what is handed to Client::rest: the request builder and the body bytes
Request(method, path, query, content_type, body) ==
    [method |-> method, path |-> path, query |-> query,
     content_type |-> content_type, body |-> body]

\* a field of a JSON payload: absent, a string, or another JSON value
Absent == [present |-> FALSE, str |-> FALSE, val |-> ""]
Field(isStr, v) == [present |-> TRUE, str |-> isStr, val |-> v]

\* response bodies: empty, text that is not JSON, and JSON payloads with or
\* without the fields `message` and `error`, that coerce to T or do not
Bodies ==
    {[kind |-> k, message |-> Absent, error |-> Absent, coerces |-> FALSE] :
        k \in {"empty", "text"}}
    \cup [kind : {"json"},
          message : {Absent, Field(TRUE, "m"), Field(FALSE, "M")},
          error : {Absent, Field(TRUE, "e"), Field(FALSE, "E")},
          coerces : BOOLEAN]

\* serde_json::from_slice(body) is Ok
IsJson(body) == body.kind = "json"

Statuses == {200, 404}

\* http::StatusCode::is_success
is_success(status) == status >= 200 /\ status < 300

\* the transport returned an error instead of a response
TransportFailure ==
    [transport |-> FALSE, status |-> 0,
     body |-> [kind |-> "empty", message |-> Absent, error |-> Absent,
               coerces |-> FALSE]]

Replies ==
    {TransportFailure}
    \cup [transport : {TRUE}, status : Statuses, body : Bodies]

\* reply before the dispatch
NoReply == TransportFailure

\* Result<T, ApiError<E>> of a dispatch
NotReturned == [tag |-> "Pending", kind |-> "", payload |-> [none |-> TRUE]]
Returns(payload) == [tag |-> "Ok", kind |-> "", payload |-> payload]
Failed(kind, payload) == [tag |-> "Err", kind |-> kind, payload |-> payload]

\* any::type_name::<T>() of the type the caller asked for
TargetType == "T"

\* ApiError::auth_error
auth_error == Failed("Auth", [source |-> "MissingAuth"])

\* ApiError::server_error
server_error(status, body) ==
    Failed("MarketstackService", [status |-> status, data |-> body])

\* from_marketstack that looks for `error` before `message`
from_marketstack_ErrorFirst(value) ==
    LET error_value == IF value.error.present THEN value.error ELSE value.message
    IN  IF error_value.present
        THEN IF error_value.str
             THEN Failed("Marketstack", [msg |-> error_value.val])
             ELSE Failed("MarketstackObject", [obj |-> error_value])
        ELSE Failed("MarketstackUnrecognized", [obj |-> value])

\* ApiError::from_marketstack
from_marketstack(value) ==
    LET error_value == IF value.message.present THEN value.message ELSE value.error
    IN  IF error_value.present
        THEN IF error_value.str
             THEN Failed("Marketstack", [msg |-> error_value.val])
             ELSE Failed("MarketstackObject", [obj |-> error_value])
        ELSE Failed("MarketstackUnrecognized", [obj |-> value])

\* ApiError::data_type::<T>
data_type == Failed("DataType", [typename |-> TargetType])

----------------------------------------------------------------------------
(* paged.rs: PageLimit, and the arguments of the builders' limit *)

\* the largest u16
U16Max == 65535
U16 == 0..U16Max

\* the arguments of a first call of limit, before the call under study
PriorArgs == {5, 9999}

\* Result<_, ApiError<PaginationError>>
NoLimitCall == [tag |-> "NotCalled", limit |-> 0, kind |-> ""]
LimitOk(n) == [tag |-> "Ok", limit |-> n, kind |-> ""]
ExceedLimit == [tag |-> "Err", limit |-> 0, kind |-> "Pagination.ExceedLimit"]

\* PageLimit::new that refuses the ceiling itself
PageLimit_new_Strict(limit) ==
    IF limit < 1000 THEN LimitOk(limit) ELSE ExceedLimit

\* PageLimit::new
PageLimit_new(limit) ==
    IF limit <= 1000 THEN LimitOk(limit) ELSE ExceedLimit

----------------------------------------------------------------------------
(* The endpoint builders: tickers.rs, eod.rs, intraday.rs *)

\* at most this many setters are called on a builder before build()
MaxSetterCalls == 3

\* TickersBuilder::default(): none of eod, splits, dividends is set
TickersBuilder_default == [eod |-> FALSE, splits |-> FALSE, dividends |-> FALSE]

\* IntradayBuilder::default()
IntradayBuilder_default == [latest |-> None, date |-> None]

\* Result of build()
NotBuilt == [tag |-> "NotBuilt", msg |-> "", path |-> <<>>, parameters |-> <<>>]
BuildOk(path, parameters) ==
    [tag |-> "Ok", msg |-> "", path |-> path, parameters |-> parameters]
BuildErr(msg) == [tag |-> "Err", msg |-> msg, path |-> <<>>, parameters |-> <<>>]

\* the symbols a caller may name, in the order of Ord for str
SymbolOrder == <<"AAPL", "GOOG", "MSFT">>
Symbols == {SymbolOrder[i] : i \in 1..Len(SymbolOrder)}
Rank(sym) == CHOOSE i \in 1..Len(SymbolOrder) : SymbolOrder[i] = sym

\* the iterators a caller may pass to symbols()
SymbolLists ==
    {<<>>, <<"AAPL", "GOOG">>, <<"GOOG", "AAPL">>, <<"MSFT", "MSFT">>}

\* the dates a caller may pass to date()
Dates == {"2019-01-01"}

\* a BTreeSet is modelled by the sequence its iterator yields: ascending,
\* without duplicates
Contains(t, x) == \E i \in 1..Len(t) : t[i] = x

\* an insert that keeps every value given, in the order given (a Vec)
BTreeSet_insert_Push(t, x) == Append(t, x)

\* BTreeSet::insert
BTreeSet_insert(t, x) ==
    IF Contains(t, x) THEN t
    ELSE LET k == Cardinality({i \in 1..Len(t) : Rank(t[i]) < Rank(x)})
         IN  SubSeq(t, 1, k) \o <<x>> \o SubSeq(t, k + 1, Len(t))

\* BTreeSet::extend: the items are inserted one by one
RECURSIVE BTreeSet_extend(_, _)
BTreeSet_extend(t, items) ==
    IF items = <<>> THEN t
    ELSE BTreeSet_extend(BTreeSet_insert(t, Head(items)), Tail(items))

\* Option::get_or_insert_with(BTreeSet::new)
get_or_insert_with(opt) == IF opt = None THEN <<>> ELSE opt[1]

----------------------------------------------------------------------------
(* Initial states *)

Number(k) == [tag |-> "Number", num |-> k, url |-> None]
KeysetFirst == [tag |-> "Keyset", num |-> 0, url |-> None]
KeysetNext(u) == [tag |-> "Keyset", num |-> 0, url |-> Some(u)]
Done == [tag |-> "Done", num |-> 0, url |-> None]

\* LazilyPagedState::new
LazilyPagedState_new ==
    [total_results |-> 0,
     next_page |-> IF keyset THEN KeysetFirst ELSE Number(1)]

\* no dispatch is made: the client and an endpoint exist, nothing was called
NoDispatch ==
    /\ form = "none"
    /\ auth = Some(Token)
    /\ endpoint = BasicEndpoint
    /\ clientLog = <<>>
    /\ sent = <<>>
    /\ reply = NoReply
    /\ answer = NotReturned

\* EodBuilder::default(), and no call of limit to come
NoBuilder ==
    /\ limit_args = <<>>
    /\ builder_limit = None
    /\ limit_ret = NoLimitCall

\* the endpoint builders are fresh and stay untouched
NoEndpointBuilder ==
    /\ target = "none"
    /\ setterLog = <<>>
    /\ tickers = TickersBuilder_default
    /\ symbols = None
    /\ intraday = IntradayBuilder_default
    /\ built = NotBuilt

\* no paginated query is made
NoPagedQuery ==
    /\ keyset = FALSE
    /\ pagination = All
    /\ driver = "none"
    /\ pc = "start"
    /\ page_num = 1
    /\ next_url = None
    /\ results = <<>>
    /\ ret = Pending
    /\ page_state = [total_results |-> 0, next_page |-> Number(1)]
    /\ current_page = <<>>
    /\ out = NotCalled
    /\ yielded = <<>>
    /\ reqLog = <<>>
    /\ pageLog = <<>>
    /\ lastRsp = NoRsp
    /\ lazyLog = <<>>
    /\ guard = "none"
    /\ at = "idle"

Init ==
    /\ keyset \in BOOLEAN
    /\ pagination \in Policies
    /\ driver \in {"async", "iter", "collect"}
    /\ fault \in {"none", "url", "body"}
    /\ pc = "start"
    /\ page_num = 1
    /\ next_url = None
    /\ results = <<>>
    /\ ret = Pending
    /\ page_state = LazilyPagedState_new
    /\ current_page = <<>>
    /\ out = NotCalled
    /\ yielded = <<>>
    /\ reqLog = <<>>
    /\ pageLog = <<>>
    /\ lastRsp = NoRsp
    /\ lazyLog = <<>>
    /\ guard = "none"
    /\ at = "idle"
    /\ NoDispatch
    /\ NoBuilder
    /\ NoEndpointBuilder

\* one dispatch of one endpoint by one query form on one client
InitDispatch ==
    /\ form \in {"query", "raw", "ignore"}
    /\ auth \in {None, Some(Token)}
    /\ endpoint \in Endpoints
    /\ fault \in {"none", "url", "body"}
    /\ clientLog = <<>>
    /\ sent = <<>>
    /\ reply = NoReply
    /\ answer = NotReturned
    /\ NoPagedQuery
    /\ NoBuilder
    /\ NoEndpointBuilder

\* a fresh builder and the calls of limit its caller will make: one call
\* with any u16, or a call with one of PriorArgs and then one with any u16
InitBuilder ==
    /\ limit_args \in {<<s>> : s \in U16}
                       \cup {<<p, s>> : p \in PriorArgs, s \in U16}
    /\ builder_limit = None
    /\ limit_ret = NoLimitCall
    /\ fault = "none"
    /\ NoPagedQuery
    /\ NoDispatch
    /\ NoEndpointBuilder

\* a fresh builder of one of the endpoints
InitEndpoints ==
    /\ target \in {"tickers", "eod", "intraday"}
    /\ setterLog = <<>>
    /\ tickers = TickersBuilder_default
    /\ symbols = None
    /\ intraday = IntradayBuilder_default
    /\ built = NotBuilt
    /\ fault = "none"
    /\ NoPagedQuery
    /\ NoDispatch
    /\ NoBuilder

\* one Paged value queried twice, against the same server: by query_async
\* and by query (the lazy iterator, drained by collect)
InitPair ==
    /\ keyset \in BOOLEAN
    /\ pagination \in Policies
    /\ driver = "pair"
    /\ fault \in {"none", "url", "body"}
    /\ pc = "start"
    /\ page_num = 1
    /\ next_url = None
    /\ results = <<>>
    /\ ret = Pending
    /\ page_state = LazilyPagedState_new
    /\ current_page = <<>>
    /\ out = NotCalled
    /\ yielded = <<>>
    /\ reqLog = <<>>
    /\ pageLog = <<>>
    /\ lastRsp = NoRsp
    /\ lazyLog = <<>>
    /\ guard = "none"
    /\ at = "idle"
    /\ NoDispatch
    /\ NoBuilder
    /\ NoEndpointBuilder

\* one LazilyPagedState, its query (or query_async) called time after time
InitLock ==
    /\ keyset \in BOOLEAN
    /\ pagination \in Policies
    /\ driver = "state"
    /\ fault \in {"none", "url", "body"}
    /\ pc = "start"
    /\ page_num = 1
    /\ next_url = None
    /\ results = <<>>
    /\ ret = Pending
    /\ page_state = LazilyPagedState_new
    /\ current_page = <<>>
    /\ out = NotCalled
    /\ yielded = <<>>
    /\ reqLog = <<>>
    /\ pageLog = <<>>
    /\ lastRsp = NoRsp
    /\ lazyLog = <<>>
    /\ guard = "none"
    /\ at = "idle"
    /\ NoDispatch
    /\ NoBuilder
    /\ NoEndpointBuilder

----------------------------------------------------------------------------
(* all_at_once.rs: Paged::query_async *)

\* the URL of one loop iteration, always rebuilt from the base URL
EagerPageUrl_Rebuilt ==
    Url(page_limit(pagination),
        IF keyset THEN NoParam ELSE page_num,
        IF keyset THEN "keyset" ELSE "",
        NoParam)

\* the URL of one loop iteration (lines 70-88)
EagerPageUrl ==
    IF next_url # None THEN next_url[1]
    ELSE Url(page_limit(pagination),
             IF keyset THEN NoParam ELSE page_num,
             IF keyset THEN "keyset" ELSE "",
             NoParam)

\* the loop exit without the test for a missing continuation URL
EagerBreaks_NoLinkTest(page_len, num_results, nu) ==
    is_last_page(pagination, page_len, num_results)

\* the loop leaves after this page (lines 123-135)
EagerBreaks(page_len, num_results, nu) ==
    \/ is_last_page(pagination, page_len, num_results)
    \/ keyset /\ nu = None

\* lines 53-67: the URL and the body are resolved once, before the loop
EagerStart ==
    /\ driver = "async"
    /\ pc = "start"
    /\ IF fault = "url" THEN pc' = "done" /\ ret' = Err("UrlResolution")
       ELSE IF fault = "body" THEN pc' = "done" /\ ret' = Err("Body")
       ELSE pc' = "loop" /\ ret' = ret
    /\ page_num' = 1
    /\ next_url' = None
    /\ results' = <<>>
    /\ UNCHANGED <<cfgVars, lazyVars, reqLog, pageLog, lastRsp, lazyLog, lockVars>>
    /\ UNCHANGED <<dispatchVars, builderVars, endpointVars>>

\* one iteration of the loop (lines 69-139), and the return after it
EagerPage ==
    /\ driver = "async"
    /\ pc = "loop"
    /\ Len(reqLog) < MaxRequests
    /\ LET url == EagerPageUrl IN
       \E rsp \in Responses(url) :
         /\ reqLog' = Append(reqLog, url)
         /\ pageLog' = Append(pageLog, Parsed(rsp))
         /\ lastRsp' = rsp
         /\ IF Classify(rsp) # "ok"
            THEN /\ pc' = "done"
                 /\ ret' = Err(Classify(rsp))
                 /\ next_url' = None
                 /\ UNCHANGED <<page_num, results>>
            ELSE LET nu == IF keyset THEN next_page_from_headers(url, rsp) ELSE None
                     all == results \o Items(url, rsp)
                 IN  /\ next_url' = nu
                     /\ IF EagerBreaks(rsp.size, Len(all), nu)
                        THEN /\ pc' = "done"
                             /\ ret' = Ok(all)
                             /\ results' = <<>>
                             /\ page_num' = page_num
                        ELSE /\ pc' = "loop"
                             /\ ret' = ret
                             /\ results' = all
                             /\ page_num' = IF keyset THEN page_num ELSE page_num + 1
    /\ UNCHANGED <<cfgVars, lazyVars, lazyLog, lockVars, dispatchVars, builderVars,
                   endpointVars>>

----------------------------------------------------------------------------
(* lazy.rs *)

\* Page::next_page that keeps a keyset cursor without a continuation URL
Page_next_page_KeepsKeyset(self, nu) ==
    IF self.tag = "Number" THEN Number(self.num + 1)
    ELSE IF self.tag = "Keyset"
         THEN IF nu # None THEN KeysetNext(nu[1]) ELSE self
    ELSE Done

\* Page::next_page that advances a page number by two
Page_next_page_Skips(self, nu) ==
    IF self.tag = "Number" THEN Number(self.num + 2)
    ELSE IF self.tag = "Keyset"
         THEN IF nu # None THEN KeysetNext(nu[1]) ELSE Done
    ELSE Done

\* Page::next_page
Page_next_page(self, nu) ==
    IF self.tag = "Number" THEN Number(self.num + 1)
    ELSE IF self.tag = "Keyset"
         THEN IF nu # None THEN KeysetNext(nu[1]) ELSE Done
    ELSE Done

\* Page::apply_to with page numbers counted from zero
apply_to_ZeroBased(self, url) ==
    IF self.tag = "Number" THEN [url EXCEPT !.page = self.num - 1]
    ELSE [url EXCEPT !.pagination = "keyset"]

\* Page::apply_to: the pair a cursor appends to a URL the driver builds
apply_to(self, url) ==
    IF self.tag = "Number" THEN [url EXCEPT !.page = self.num]
    ELSE [url EXCEPT !.pagination = "keyset"]

\* LazilyPagedState::next_page that does not count the page it was given
State_next_page_NoCount(ps, last_page_size, nu) ==
    [total_results |-> ps.total_results,
     next_page |-> IF is_last_page(pagination, last_page_size,
                                   ps.total_results + last_page_size)
                   THEN Done
                   ELSE Page_next_page(ps.next_page, nu)]

\* LazilyPagedState::next_page
State_next_page(ps, last_page_size, nu) ==
    LET total == ps.total_results + last_page_size IN
    [total_results |-> total,
     next_page |-> IF is_last_page(pagination, last_page_size, total)
                   THEN Done
                   ELSE Page_next_page(ps.next_page, nu)]

\* LazilyPagedState::page_url builds the URL itself (and so resolves the
\* endpoint URL, which can fail) unless the cursor holds a continuation URL
BuildsUrl(ps) == ps.next_page # Done /\ ps.next_page.url = None

\* page_url without the test for Done
page_url_NoDoneTest(ps) ==
    IF ps.next_page.url # None THEN Some(ps.next_page.url[1])
    ELSE Some(apply_to(ps.next_page,
                       Url(page_limit(pagination), NoParam, "", NoParam)))

\* LazilyPagedState::page_url, its Ok value
page_url(ps) ==
    IF ps.next_page = Done THEN None
    ELSE IF ps.next_page.url # None THEN Some(ps.next_page.url[1])
    ELSE Some(apply_to(ps.next_page,
                       Url(page_limit(pagination), NoParam, "", NoParam)))

\* Vec::reverse that leaves the page as it came
Reverse_Identity(s) == s

Reverse(s) == [i \in 1..Len(s) |-> s[Len(s) + 1 - i]]

\* self.current_page.pop().map(Ok): the value returned and the items left
Popped(buf) == IF buf = <<>> THEN OutNone ELSE OutOk(buf[Len(buf)])
\* a pop that drops the rest of the buffer
Rest_Empties(buf) == <<>>

Rest(buf) == IF buf = <<>> THEN <<>> ELSE SubSeq(buf, 1, Len(buf) - 1)

\* one call of next() / next_async(): refill when the buffer is empty
\* (LazilyPagedState::query), reverse, pop
LazyNext ==
    \/ \* the buffer holds items: no query
       /\ current_page # <<>>
       /\ out' = Popped(current_page)
       /\ current_page' = Rest(current_page)
       /\ yielded' = Append(yielded, current_page[Len(current_page)])
       /\ UNCHANGED <<page_state, reqLog, pageLog, lastRsp>>
    \/ \* the cursor is Done: query returns an empty page without a request
       /\ current_page = <<>>
       /\ page_url(page_state) = None
       /\ out' = OutNone
       /\ UNCHANGED <<page_state, current_page, yielded, reqLog, pageLog, lastRsp>>
    \/ \* page_url or build_request fails: no request
       /\ current_page = <<>>
       /\ page_url(page_state) # None
       /\ \/ fault = "url" /\ BuildsUrl(page_state) /\ out' = OutErr("UrlResolution")
          \/ fault = "body" /\ out' = OutErr("Body")
       /\ UNCHANGED <<page_state, current_page, yielded, reqLog, pageLog, lastRsp>>
    \/ \* a request is sent and its response processed
       /\ current_page = <<>>
       /\ page_url(page_state) # None
       /\ ~(fault = "url" /\ BuildsUrl(page_state))
       /\ fault # "body"
       /\ Len(reqLog) < MaxRequests
       /\ LET url == page_url(page_state)[1] IN
          \E rsp \in Responses(url) :
            /\ reqLog' = Append(reqLog, url)
            /\ pageLog' = Append(pageLog, Parsed(rsp))
            /\ lastRsp' = rsp
            /\ IF Classify(rsp) # "ok"
               THEN /\ out' = OutErr(Classify(rsp))
                    /\ UNCHANGED <<page_state, current_page, yielded>>
               ELSE LET nu == IF keyset THEN next_page_from_headers(url, rsp) ELSE None
                        buf == Reverse(Items(url, rsp))
                    IN  /\ page_state' = State_next_page(page_state, rsp.size, nu)
                        /\ out' = Popped(buf)
                        /\ current_page' = Rest(buf)
                        /\ yielded' = IF buf = <<>> THEN yielded
                                      ELSE Append(yielded, buf[Len(buf)])

\* Iterator::next / next_async called by a consumer that pulls at will
IterNext ==
    /\ driver = "iter"
    /\ LazyNext
    /\ UNCHANGED <<cfgVars, eagerVars, pc, ret, lazyLog, lockVars, dispatchVars,
                   builderVars, endpointVars>>

\* Paged::query: self.iter(client).collect() into Result<Vec<T>, _>:
\* pulls until None (Ok of the items) or the first Err (that error)
CollectNext ==
    /\ driver = "collect"
    /\ pc # "done"
    /\ LazyNext
    /\ IF out'.tag = "Err" THEN pc' = "done" /\ ret' = Err(out'.kind)
       ELSE IF out'.tag = "None" THEN pc' = "done" /\ ret' = Ok(yielded')
       ELSE pc' = "loop" /\ ret' = ret
    /\ UNCHANGED <<cfgVars, eagerVars, lazyLog, lockVars, dispatchVars, builderVars,
                   endpointVars>>

----------------------------------------------------------------------------
(* query_async and query of one Paged value, side by side.  A step is one  *)
(* iteration of query_async's loop together with one refill of the lazy    *)
(* iterator (the next() that finds the buffer empty, and the next() calls  *)
(* that pop the page it fetched); a driver that has returned stands still. *)
(* The server is deterministic: asked the same URL by both, it answers     *)
(* both the same.                                                          *)

\* the items pop() hands out until the buffer is empty, in that order
Drain(buf) == [i \in 1..Len(buf) |-> buf[Len(buf) + 1 - i]]

\* collect() goes on pulling: next() has not returned None or an Err
LazyRuns == out.tag \notin {"None", "Err"}

\* the refill sends a request: the cursor is not Done, nothing fails before
LazySends ==
    /\ LazyRuns
    /\ page_url(page_state) # None
    /\ ~(fault = "url" /\ BuildsUrl(page_state))
    /\ fault # "body"

\* lines 53-67 of all_at_once.rs; LazilyPagedIter::new
PairStart ==
    /\ driver = "pair"
    /\ pc = "start"
    /\ IF fault = "url" THEN pc' = "done" /\ ret' = Err("UrlResolution")
       ELSE IF fault = "body" THEN pc' = "done" /\ ret' = Err("Body")
       ELSE pc' = "loop" /\ ret' = ret
    /\ page_num' = 1
    /\ next_url' = None
    /\ results' = <<>>
    /\ UNCHANGED <<cfgVars, lazyVars, reqLog, pageLog, lastRsp, lazyLog, lockVars>>
    /\ UNCHANGED <<dispatchVars, builderVars, endpointVars>>

\* one iteration of query_async's loop (lines 69-139), answered by rsp
PairEager(url, rsp) ==
    IF pc # "loop"
    THEN UNCHANGED <<pc, ret, eagerVars, reqLog, pageLog, lastRsp>>
    ELSE /\ reqLog' = Append(reqLog, url)
         /\ pageLog' = Append(pageLog, Parsed(rsp))
         /\ lastRsp' = rsp
         /\ IF Classify(rsp) # "ok"
            THEN /\ pc' = "done"
                 /\ ret' = Err(Classify(rsp))
                 /\ next_url' = None
                 /\ UNCHANGED <<page_num, results>>
            ELSE LET nu == IF keyset THEN next_page_from_headers(url, rsp) ELSE None
                     all == results \o Items(url, rsp)
                 IN  /\ next_url' = nu
                     /\ IF EagerBreaks(rsp.size, Len(all), nu)
                        THEN /\ pc' = "done"
                             /\ ret' = Ok(all)
                             /\ results' = <<>>
                             /\ page_num' = page_num
                        ELSE /\ pc' = "loop"
                             /\ ret' = ret
                             /\ results' = all
                             /\ page_num' = IF keyset THEN page_num ELSE page_num + 1

\* one refill of the lazy iterator (LazilyPagedState::query, lines 249-260,
\* and Iterator::next, lines 319-331) answered by rsp, and the pops of the
\* page it fetched
PairLazy(rsp) ==
    IF ~LazyRuns THEN UNCHANGED <<lazyVars, lazyLog>>
    ELSE IF page_url(page_state) = None
    THEN /\ out' = OutNone
         /\ UNCHANGED <<page_state, current_page, yielded, lazyLog>>
    ELSE IF fault = "url" /\ BuildsUrl(page_state)
    THEN /\ out' = OutErr("UrlResolution")
         /\ UNCHANGED <<page_state, current_page, yielded, lazyLog>>
    ELSE IF fault = "body"
    THEN /\ out' = OutErr("Body")
         /\ UNCHANGED <<page_state, current_page, yielded, lazyLog>>
    ELSE LET url == page_url(page_state)[1] IN
         /\ lazyLog' = Append(lazyLog, url)
         /\ IF Classify(rsp) # "ok"
            THEN /\ out' = OutErr(Classify(rsp))
                 /\ UNCHANGED <<page_state, current_page, yielded>>
            ELSE LET nu == IF keyset THEN next_page_from_headers(url, rsp) ELSE None
                     buf == Reverse(Items(url, rsp))
                 IN  /\ page_state' = State_next_page(page_state, rsp.size, nu)
                     /\ out' = IF buf = <<>> THEN OutNone ELSE OutOk(buf[1])
                     /\ current_page' = <<>>
                     /\ yielded' = yielded \o Drain(buf)

PairPage ==
    /\ driver = "pair"
    /\ pc # "start"
    /\ pc = "loop" \/ LazyRuns
    /\ pc = "loop" => Len(reqLog) < MaxRequests
    /\ LazySends => Len(lazyLog) < MaxRequests
    /\ LET eurl == EagerPageUrl
           lurl == IF LazySends THEN page_url(page_state)[1] ELSE eurl
       IN  \E ersp \in IF pc = "loop" THEN Responses(eurl) ELSE {NoRsp} :
           \E lrsp \in IF ~LazySends THEN {NoRsp}
                        ELSE IF pc = "loop" /\ lurl = eurl THEN {ersp}
                        ELSE Responses(lurl) :
             /\ PairEager(eurl, ersp)
             /\ PairLazy(lrsp)
    /\ UNCHANGED <<cfgVars, lockVars, dispatchVars, builderVars, endpointVars>>

----------------------------------------------------------------------------
(* LazilyPagedState::query (and query_async, the same statements with an   *)
(* await at the send) step by step, with the guards it takes on the cursor *)
(* lock.  A call returns a page: OutOk of its first item stands for a page *)
(* of items, OutNone for an empty page.                                    *)

\* what is left unchanged by every step of the call
LockFrame ==
    UNCHANGED <<cfgVars, eagerVars, pc, ret, current_page, lazyLog,
                dispatchVars, builderVars, endpointVars>>

\* a guard that outlives the function that took it
RwLock_drop_Leaks(g) == g

\* a guard goes out of scope when the function that took it returns
RwLock_drop(g) == "none"

\* page_url, its first statement: self.page_state.read()
PageUrlRead ==
    /\ driver = "state"
    /\ at = "idle"
    /\ guard # "write"
    /\ guard' = "read"
    /\ at' = "page_url"
    /\ UNCHANGED <<page_state, out, yielded, reqLog, pageLog, lastRsp>>
    /\ LockFrame

\* page_url, the rest of it, under the read guard: Done, a continuation URL
\* or a URL built with apply_to; the guard is dropped at the return
PageUrlReturn ==
    /\ driver = "state"
    /\ at = "page_url"
    /\ guard' = RwLock_drop(guard)
    /\ IF page_url(page_state) = None
       THEN at' = "idle" /\ out' = OutNone
       ELSE IF fault = "url" /\ BuildsUrl(page_state)
       THEN at' = "idle" /\ out' = OutErr("UrlResolution")
       ELSE at' = "build_request" /\ out' = out
    /\ UNCHANGED <<page_state, yielded, reqLog, pageLog, lastRsp>>
    /\ LockFrame

\* build_request: the body of the endpoint, the request builder
BuildRequest ==
    /\ driver = "state"
    /\ at = "build_request"
    /\ IF fault = "body"
       THEN at' = "idle" /\ out' = OutErr("Body")
       ELSE at' = "rest" /\ out' = out
    /\ UNCHANGED <<page_state, guard, yielded, reqLog, pageLog, lastRsp>>
    /\ LockFrame

\* client.rest(req, data)? / client.rest_async(req, data).await?
ClientRest ==
    /\ driver = "state"
    /\ at = "rest"
    /\ Len(reqLog) < MaxRequests
    /\ LET url == page_url(page_state)[1] IN
       \E rsp \in Responses(url) :
         /\ reqLog' = Append(reqLog, url)
         /\ pageLog' = Append(pageLog, Parsed(rsp))
         /\ lastRsp' = rsp
         /\ IF ~rsp.transport
            THEN at' = "idle" /\ out' = OutErr("Transport")
            ELSE at' = "process_response" /\ out' = out
    /\ UNCHANGED <<page_state, guard, yielded>>
    /\ LockFrame

\* process_response up to its call of self.next_page
ProcessResponse ==
    /\ driver = "state"
    /\ at = "process_response"
    /\ IF Classify(lastRsp) # "ok"
       THEN at' = "idle" /\ out' = OutErr(Classify(lastRsp))
       ELSE at' = "next_page" /\ out' = out
    /\ UNCHANGED <<page_state, guard, yielded, reqLog, pageLog, lastRsp>>
    /\ LockFrame

\* next_page, its first statement: self.page_state.write(), which waits
\* while any guard is held
NextPageWrite ==
    /\ driver = "state"
    /\ at = "next_page"
    /\ guard = "none"
    /\ guard' = "write"
    /\ at' = "write"
    /\ UNCHANGED <<page_state, out, yielded, reqLog, pageLog, lastRsp>>
    /\ LockFrame

\* next_page, the rest of it, under the write guard, and the return of the page
NextPageReturn ==
    /\ driver = "state"
    /\ at = "write"
    /\ LET url == reqLog[Len(reqLog)]
           nu == IF keyset THEN next_page_from_headers(url, lastRsp) ELSE None
           page == Items(url, lastRsp)
       IN  /\ page_state' = State_next_page(page_state, lastRsp.size, nu)
           /\ out' = IF page = <<>> THEN OutNone ELSE OutOk(page[1])
           /\ yielded' = yielded \o page
    /\ guard' = RwLock_drop(guard)
    /\ at' = "idle"
    /\ UNCHANGED <<reqLog, pageLog, lastRsp>>
    /\ LockFrame

----------------------------------------------------------------------------
(* endpoint.rs: Query::query and AsyncQuery::query_async of an endpoint *)

\* the header and the bytes an endpoint's body() adds to the request
ContentType(ep) == IF ep.body = None THEN None ELSE Some(ep.body[1].mime)
BodyBytes(ep) == IF ep.body = None THEN "" ELSE ep.body[1].data

UrlParse == Failed("UrlParse", [source |-> "rest_endpoint"])
BodyError == Failed("Body", [source |-> "body"])
ClientError == Failed("Client", [source |-> "rest"])

\* the request of a dispatch: the endpoint's parameters, then access_key
Query_request(ep, token) ==
    Request(ep.method, ep.path,
            Append(ep.parameters, <<"access_key", token>>),
            ContentType(ep), BodyBytes(ep))

\* the steps before the send with the URL resolved before the credential
\* is asked for
Query_prepare_UrlFirst(a, f) ==
    IF f = "url" THEN [calls |-> <<"rest_endpoint">>, err |-> Some(UrlParse)]
    ELSE IF a = None
    THEN [calls |-> <<"rest_endpoint", "get_auth">>, err |-> Some(auth_error)]
    ELSE IF f = "body"
    THEN [calls |-> <<"rest_endpoint", "get_auth">>, err |-> Some(BodyError)]
    ELSE [calls |-> <<"rest_endpoint", "get_auth">>, err |-> None]

\* the steps before the send with the error of body() dropped
Query_prepare_IgnoresBodyError(a, f) ==
    IF a = None THEN [calls |-> <<"get_auth">>, err |-> Some(auth_error)]
    ELSE IF f = "url"
    THEN [calls |-> <<"get_auth", "rest_endpoint">>, err |-> Some(UrlParse)]
    ELSE [calls |-> <<"get_auth", "rest_endpoint">>, err |-> None]

\* the steps before the send (lines 38-56): the calls made on the client
\* and the error returned early, if any
Query_prepare(a, f) ==
    IF a = None THEN [calls |-> <<"get_auth">>, err |-> Some(auth_error)]
    ELSE IF f = "url"
    THEN [calls |-> <<"get_auth", "rest_endpoint">>, err |-> Some(UrlParse)]
    ELSE IF f = "body"
    THEN [calls |-> <<"get_auth", "rest_endpoint">>, err |-> Some(BodyError)]
    ELSE [calls |-> <<"get_auth", "rest_endpoint">>, err |-> None]

\* the classification with the coercion tried before the status is tested
Query_classify_CoerceFirst(rsp) ==
    IF ~IsJson(rsp.body) THEN server_error(rsp.status, rsp.body)
    ELSE IF ~rsp.body.coerces THEN data_type
    ELSE IF ~is_success(rsp.status) THEN from_marketstack(rsp.body)
    ELSE Returns([value |-> rsp.body])

\* the classification of a response (lines 58-68)
Query_classify(rsp) ==
    IF ~IsJson(rsp.body) THEN server_error(rsp.status, rsp.body)
    ELSE IF ~is_success(rsp.status) THEN from_marketstack(rsp.body)
    ELSE IF ~rsp.body.coerces THEN data_type
    ELSE Returns([value |-> rsp.body])

QueryDispatch ==
    /\ form = "query"
    /\ answer = NotReturned
    /\ LET pre == Query_prepare(auth, fault) IN
       IF pre.err # None
       THEN /\ clientLog' = pre.calls
            /\ answer' = pre.err[1]
            /\ UNCHANGED <<sent, reply>>
       ELSE \E rsp \in Replies :
              /\ clientLog' = Append(pre.calls, "rest")
              /\ sent' = Append(sent, Query_request(endpoint, auth[1]))
              /\ reply' = rsp
              /\ answer' = IF ~rsp.transport THEN ClientError
                            ELSE Query_classify(rsp)
    /\ UNCHANGED <<form, auth, endpoint, fault, pagedVars, builderVars,
                   endpointVars>>

----------------------------------------------------------------------------
(* raw.rs: Query::query and AsyncQuery::query_async of Raw<E> *)

\* the request of Raw: the endpoint's parameters, nothing added
Raw_request(ep) ==
    Request(ep.method, ep.path, ep.parameters, ContentType(ep), BodyBytes(ep))

\* the steps before the send (lines 28-39): the client is not asked for
\* its credential
Raw_prepare(f) ==
    IF f = "url" THEN [calls |-> <<"rest_endpoint">>, err |-> Some(UrlParse)]
    ELSE IF f = "body"
    THEN [calls |-> <<"rest_endpoint">>, err |-> Some(BodyError)]
    ELSE [calls |-> <<"rest_endpoint">>, err |-> None]

\* Raw that parses the body as JSON whatever the status, as the plain
\* dispatch does
Raw_classify_ParsesFirst(rsp) ==
    IF ~IsJson(rsp.body) THEN server_error(rsp.status, rsp.body)
    ELSE IF ~is_success(rsp.status) THEN from_marketstack(rsp.body)
    ELSE Returns([bytes |-> rsp.body])

\* lines 41-50: only a non-success body is parsed
Raw_classify(rsp) ==
    IF ~is_success(rsp.status)
    THEN IF IsJson(rsp.body) THEN from_marketstack(rsp.body)
         ELSE server_error(rsp.status, rsp.body)
    ELSE Returns([bytes |-> rsp.body])

RawDispatch ==
    /\ form = "raw"
    /\ answer = NotReturned
    /\ LET pre == Raw_prepare(fault) IN
       IF pre.err # None
       THEN /\ clientLog' = pre.calls
            /\ answer' = pre.err[1]
            /\ UNCHANGED <<sent, reply>>
       ELSE \E rsp \in Replies :
              /\ clientLog' = Append(pre.calls, "rest")
              /\ sent' = Append(sent, Raw_request(endpoint))
              /\ reply' = rsp
              /\ answer' = IF ~rsp.transport THEN ClientError
                            ELSE Raw_classify(rsp)
    /\ UNCHANGED <<form, auth, endpoint, fault, pagedVars, builderVars,
                   endpointVars>>

----------------------------------------------------------------------------
(* ignore.rs: Query::query of Ignore<E>.  The source holds the head of the *)
(* function (the URL is resolved first, the client is not asked for its    *)
(* credential) and its test (basic.rs, tests::endpoint: the request of     *)
(* ignore(BasicEndpoint) carries no query pair at all); what follows the   *)
(* send is modelled from the specification: the body is discarded, and     *)
(* only transport and HTTP-level failures are reported.                    *)

Ignore_prepare(f) ==
    IF f = "url" THEN [calls |-> <<"rest_endpoint">>, err |-> Some(UrlParse)]
    ELSE IF f = "body"
    THEN [calls |-> <<"rest_endpoint">>, err |-> Some(BodyError)]
    ELSE [calls |-> <<"rest_endpoint">>, err |-> None]

Ignore_request(ep) ==
    Request(ep.method, ep.path, ep.parameters, ContentType(ep), BodyBytes(ep))

Ignore_classify(rsp) ==
    IF ~is_success(rsp.status)
    THEN IF IsJson(rsp.body) THEN from_marketstack(rsp.body)
         ELSE server_error(rsp.status, rsp.body)
    ELSE Returns([unit |-> TRUE])

IgnoreDispatch ==
    /\ form = "ignore"
    /\ answer = NotReturned
    /\ LET pre == Ignore_prepare(fault) IN
       IF pre.err # None
       THEN /\ clientLog' = pre.calls
            /\ answer' = pre.err[1]
            /\ UNCHANGED <<sent, reply>>
       ELSE \E rsp \in Replies :
              /\ clientLog' = Append(pre.calls, "rest")
              /\ sent' = Append(sent, Ignore_request(endpoint))
              /\ reply' = rsp
              /\ answer' = IF ~rsp.transport THEN ClientError
                            ELSE Ignore_classify(rsp)
    /\ UNCHANGED <<form, auth, endpoint, fault, pagedVars, builderVars,
                   endpointVars>>

----------------------------------------------------------------------------
(* eod.rs: EodBuilder::limit (the same in every endpoint builder) *)

\* new.limit = Some(Some(PageLimit::new(limit)?)); Ok(new)
EodBuilder_limit ==
    /\ limit_args # <<>>
    /\ LET r == PageLimit_new(Head(limit_args)) IN
         /\ limit_ret' = r
         /\ builder_limit' = IF r.tag = "Ok" THEN Some(r.limit) ELSE builder_limit
    /\ limit_args' = Tail(limit_args)
    /\ UNCHANGED <<fault, pagedVars, dispatchVars, endpointVars>>

----------------------------------------------------------------------------
(* tickers.rs: TickersBuilder *)

\* a setter may be called on the builder at work
MaySet(t) ==
    /\ target = t
    /\ built = NotBuilt
    /\ Len(setterLog) < MaxSetterCalls

\* one setter call in the log
Call(op, arg) == [op |-> op, arg |-> arg]

\* the setters eod(..), splits(..), dividends(..) (derive_builder)
TickersBuilder_set ==
    /\ MaySet("tickers")
    /\ \E f \in {"eod", "splits", "dividends"} :
         /\ tickers' = [tickers EXCEPT ![f] = TRUE]
         /\ setterLog' = Append(setterLog, Call(f, <<>>))
    /\ UNCHANGED <<fault, pagedVars, dispatchVars, builderVars, target, symbols,
                   intraday, built>>

\* the message of the error (the backquotes of the source left out)
TickersInvalid == "Invalid combinations of eod, splits or dividends"

\* validate that lets two of the three through
TickersBuilder_validate_AllThree(self) ==
    LET count == Cardinality({f \in {"eod", "splits", "dividends"} : self[f]})
    IN  IF count > 2 THEN Some(TickersInvalid) ELSE None

\* TickersBuilder::validate: None for Ok(()), Some(msg) for Err(msg)
TickersBuilder_validate(self) ==
    LET count == Cardinality({f \in {"eod", "splits", "dividends"} : self[f]})
    IN  IF count > 1 THEN Some(TickersInvalid) ELSE None

\* build(): validate, then the endpoint (no ticker is set: the path is
\* tickers, and the sub-endpoints are built with their defaults)
TickersBuilder_build ==
    /\ target = "tickers"
    /\ built = NotBuilt
    /\ LET v == TickersBuilder_validate(tickers) IN
         built' = IF v # None THEN BuildErr(v[1]) ELSE BuildOk(<<"tickers">>, <<>>)
    /\ UNCHANGED <<fault, pagedVars, dispatchVars, builderVars, target, setterLog,
                   tickers, symbols, intraday>>

----------------------------------------------------------------------------
(* eod.rs: EodBuilder::symbol, EodBuilder::symbols, Eod::parameters *)

EodBuilder_symbol ==
    /\ MaySet("eod")
    /\ \E s \in Symbols :
         /\ symbols' = Some(BTreeSet_insert(get_or_insert_with(symbols), s))
         /\ setterLog' = Append(setterLog, Call("symbol", <<s>>))
    /\ UNCHANGED <<fault, pagedVars, dispatchVars, builderVars, target, tickers,
                   intraday, built>>

EodBuilder_symbols ==
    /\ MaySet("eod")
    /\ \E l \in SymbolLists :
         /\ symbols' = Some(BTreeSet_extend(get_or_insert_with(symbols), l))
         /\ setterLog' = Append(setterLog, Call("symbols", l))
    /\ UNCHANGED <<fault, pagedVars, dispatchVars, builderVars, target, tickers,
                   intraday, built>>

\* Eod::parameters with only symbols set: one pair per item of the set
Eod_parameters(set) == [i \in 1..Len(set) |-> <<"symbols", set[i]>>]

\* build(): symbols defaults to the empty set
EodBuilder_build ==
    /\ target = "eod"
    /\ built = NotBuilt
    /\ built' = BuildOk(<<"eod">>,
                        Eod_parameters(IF symbols = None THEN <<>> ELSE symbols[1]))
    /\ UNCHANGED <<fault, pagedVars, dispatchVars, builderVars, target, setterLog,
                   tickers, symbols, intraday>>

----------------------------------------------------------------------------
(* intraday.rs: IntradayBuilder, Intraday::endpoint *)

\* the setter latest(bool) (derive_builder, strip_option)
IntradayBuilder_latest ==
    /\ MaySet("intraday")
    /\ \E b \in BOOLEAN :
         /\ intraday' = [intraday EXCEPT !.latest = Some(b)]
         /\ setterLog' = Append(setterLog, Call("latest", <<b>>))
    /\ UNCHANGED <<fault, pagedVars, dispatchVars, builderVars, target, tickers,
                   symbols, built>>

\* the setter date(NaiveDate)
IntradayBuilder_date ==
    /\ MaySet("intraday")
    /\ \E d \in Dates :
         /\ intraday' = [intraday EXCEPT !.date = Some(d)]
         /\ setterLog' = Append(setterLog, Call("date", <<d>>))
    /\ UNCHANGED <<fault, pagedVars, dispatchVars, builderVars, target, tickers,
                   symbols, built>>

\* the message of the error (the backquotes of the source left out)
IntradayInvalid == "Cannot use both date and latest"

\* IntradayBuilder::validate
IntradayBuilder_validate(self) ==
    IF self.date # None /\ self.latest # None THEN Some(IntradayInvalid) ELSE None

\* Intraday::endpoint, the path as its segments
Intraday_endpoint(self) ==
    IF self.latest # None THEN <<"intraday", "latest">>
    ELSE IF self.date # None THEN <<"intraday", self.date[1]>>
    ELSE <<"intraday">>

IntradayBuilder_build ==
    /\ target = "intraday"
    /\ built = NotBuilt
    /\ LET v == IntradayBuilder_validate(intraday) IN
         built' = IF v # None THEN BuildErr(v[1])
                  ELSE BuildOk(Intraday_endpoint(intraday), <<>>)
    /\ UNCHANGED <<fault, pagedVars, dispatchVars, builderVars, target, setterLog,
                   tickers, symbols, intraday>>

----------------------------------------------------------------------------

Next == EagerStart \/ EagerPage \/ IterNext \/ CollectNext

Spec == Init /\ [][Next]_vars

NextDispatch == QueryDispatch \/ RawDispatch \/ IgnoreDispatch

SpecDispatch == InitDispatch /\ [][NextDispatch]_vars

NextBuilder == EodBuilder_limit

NextEndpoints ==
    \/ TickersBuilder_set
    \/ TickersBuilder_build
    \/ EodBuilder_symbol
    \/ EodBuilder_symbols
    \/ EodBuilder_build
    \/ IntradayBuilder_latest
    \/ IntradayBuilder_date
    \/ IntradayBuilder_build

SpecEndpoints == InitEndpoints /\ [][NextEndpoints]_vars

SpecBuilder == InitBuilder /\ [][NextBuilder]_vars

NextPair == PairStart \/ PairPage

NextLock ==
    \/ PageUrlRead
    \/ PageUrlReturn
    \/ BuildRequest
    \/ ClientRest
    \/ ProcessResponse
    \/ NextPageWrite
    \/ NextPageReturn

SpecLock == InitLock /\ [][NextLock]_vars

SpecPair == InitPair /\ [][NextPair]_vars

TypeOK ==
    /\ keyset \in BOOLEAN
    /\ pagination \in Policies
    /\ pc \in {"start", "loop", "done"}
    /\ ret.tag \in {"Pending", "Ok", "Err"}
    /\ out.tag \in {"NotCalled", "None", "Ok", "Err"}
    /\ Len(reqLog) <= MaxRequests
    /\ Len(pageLog) = Len(reqLog)

----------------------------------------------------------------------------
(* Vocabulary of the properties *)

Iota(n) == [i \in 1..n |-> i]

Last(s) == s[Len(s)]

\* no fetch has failed so far
FailureFree == \A i \in 1..Len(pageLog) : pageLog[i] # NoPage

\* a fetch has failed
Errored == \E i \in 1..Len(pageLog) : pageLog[i] = NoPage

RECURSIVE SumPages(_)
SumPages(log) ==
    IF log = <<>> THEN 0
    ELSE SumPages(SubSeq(log, 1, Len(log) - 1))
         + (IF Last(log) = NoPage THEN 0 ELSE Last(log))

\* number of items parsed from the pages fetched so far
Fetched == SumPages(pageLog)

\* the driver will send no further request
Stopped ==
    IF driver = "async" THEN pc = "done" ELSE page_state.next_page = Done

\* the query has handed over its whole result: query_async / query returned
\* Ok, the iterator returned None
Returned ==
    IF driver = "iter" THEN out.tag = "None" ELSE pc = "done" /\ ret.tag = "Ok"

ReturnedItems == IF driver = "iter" THEN yielded ELSE ret.items

\* the latest response is a parsed page
LastParsed == pageLog # <<>> /\ Last(pageLog) # NoPage

----------------------------------------------------------------------------
(* C1: short-page termination.  Under All, when the server has returned k  *)
(* full pages (1000 items each) and then a page of r < 1000 items, the     *)
(* driver (eager or lazy) stops with exactly those k+1 requests sent and   *)
(* returns the k*1000 + r items in server order; it does not stop after a  *)
(* full page (that carries a continuation URL, in keyset mode), and it     *)
(* never sends a request after a short page.                               *)
C1_ShortPageTermination ==
    (pagination = All /\ fault = "none" /\ FailureFree) =>
        LET n == Len(pageLog) IN
        /\ \A i \in 1..(n - 1) : pageLog[i] = MAX_PAGE_SIZE
        /\ (n >= 1 /\ pageLog[n] < MAX_PAGE_SIZE) =>
              /\ Stopped
              /\ Len(reqLog) = n
              /\ Returned =>
                    ReturnedItems = Iota((n - 1) * MAX_PAGE_SIZE + pageLog[n])
        /\ (n >= 1 /\ pageLog[n] = MAX_PAGE_SIZE
                   /\ (keyset => lastRsp.link = "next")) => ~Stopped

\* the lazy iterator has been drained over pages of 1000, 1000 and 7 items
C1_Witness ==
    /\ pagination = All
    /\ driver = "iter"
    /\ pageLog = <<MAX_PAGE_SIZE, MAX_PAGE_SIZE, 7>>
    /\ out.tag = "None"
    /\ Len(yielded) = 2 * MAX_PAGE_SIZE + 7

----------------------------------------------------------------------------
(* C2 as stated: with Limit(45) and a server whose every page holds 20     *)
(* items, the query stops after exactly 3 requests and returns 60 items.   *)
C2_Original ==
    (/\ pagination = Limit(45)
     /\ fault = "none"
     /\ pageLog # <<>>
     /\ \A i \in 1..Len(pageLog) : pageLog[i] = 20
     /\ Stopped) =>
        /\ Len(reqLog) = 3
        /\ Returned => Len(ReturnedItems) = 60

(* C2, amended: under Limit(n), against a server whose every page is full  *)
(* (holds per_page = min(n, 1000) items, with a continuation URL in keyset *)
(* mode), the driver keeps fetching exactly until the accumulated count    *)
(* reaches or exceeds n, and returns every fetched item without truncating *)
(* to n: Limit(2500) stops after 3 requests and returns 3000 items.  A     *)
(* page shorter than per_page ends the query whatever the count (20-item   *)
(* pages under Limit(45): one request, 20 items).                          *)
C2_LimitTermination ==
    (/\ pagination.kind = "Limit"
     /\ fault = "none"
     /\ pageLog # <<>>
     /\ \A i \in 1..Len(pageLog) :
            pageLog[i] = Min(pagination.limit, MAX_PAGE_SIZE)) =>
        LET n == Len(pageLog)
            pp == Min(pagination.limit, MAX_PAGE_SIZE)
        IN  /\ \A i \in 1..(n - 1) : i * pp < pagination.limit
            /\ n * pp >= pagination.limit =>
                  /\ Stopped
                  /\ Returned => ReturnedItems = Iota(n * pp)
            /\ (n * pp < pagination.limit /\ (keyset => lastRsp.link = "next"))
                  => ~Stopped

\* query_async under Limit(2500) has returned the 3000 items of 3 full pages
C2_Witness ==
    /\ pagination = Limit(2500)
    /\ driver = "async"
    /\ Len(reqLog) = 3
    /\ ret.tag = "Ok"
    /\ Len(ret.items) = 3 * MAX_PAGE_SIZE

\* a short page under Limit(45): one request, 20 items, query over
C2_ShortWitness ==
    /\ pagination = Limit(45)
    /\ pageLog = <<20>>
    /\ Returned
    /\ Len(ReturnedItems) = 20

----------------------------------------------------------------------------
(* C3: fail-fast lazy iteration.  Once a page fetch has failed (and the    *)
(* iterator has yielded the error item), no later call of next() sends a   *)
(* request or yields an Ok item.                                           *)
C3_FailFastLazy ==
    [][(driver \in {"iter", "collect"} /\ Errored) =>
          (reqLog' = reqLog /\ yielded' = yielded)]_vars

----------------------------------------------------------------------------
(* C4: once the cursor is Done it stays Done, no request is sent any more, *)
(* and a call that needs a page gets an empty one (next() returns None).   *)
C4_DoneIsFinal ==
    [][page_state.next_page = Done =>
          /\ page_state'.next_page = Done
          /\ reqLog' = reqLog
          /\ current_page = <<>> => (out' = OutNone /\ current_page' = <<>>)]_vars

\* next() has been called with the cursor Done and an empty buffer
C4_Witness ==
    /\ driver = "iter"
    /\ page_state.next_page = Done
    /\ current_page = <<>>
    /\ out.tag = "None"
    /\ Len(reqLog) >= 1

----------------------------------------------------------------------------
(* C5: keyset termination without continuation.  In keyset mode, after a   *)
(* parsed page that is not a last page by the termination rule (it is full *)
(* and the limit is not reached) but whose response carries no             *)
(* continuation URL, the driver sends no further request: query_async has  *)
(* returned the items gathered so far, the lazy cursor is Done.            *)
FullPageNoContinuation ==
    /\ keyset
    /\ LastParsed
    /\ lastRsp.link = "none"
    /\ Last(pageLog) >= Min(IF pagination.kind = "All" THEN MAX_PAGE_SIZE
                            ELSE pagination.limit, MAX_PAGE_SIZE)
    /\ pagination.kind = "Limit" => Fetched < pagination.limit

C5_KeysetNoContinuation ==
    /\ [](FullPageNoContinuation =>
            /\ Stopped
            /\ driver = "async" => (ret.tag = "Ok" /\ Len(ret.items) = Fetched)
            /\ driver # "async" => page_state.next_page = Done)
    /\ [][FullPageNoContinuation => reqLog' = reqLog]_vars

\* the first page is full, carries no continuation URL, and the cursor is Done
C5_Witness ==
    /\ FullPageNoContinuation
    /\ driver = "iter"
    /\ Len(reqLog) = 1
    /\ page_state.next_page = Done

----------------------------------------------------------------------------
----------------------------------------------------------------------------
(* C7: offset page numbers.  In offset mode, while no fetch has failed,    *)
(* the k-th request carries page = k (the first page = 1), and the cursor  *)
(* of a driver that goes on stands one past the pages processed: no page   *)
(* number is skipped or requested twice.                                   *)
C7_OffsetPageNumbers ==
    (~keyset /\ FailureFree) =>
        /\ \A k \in 1..Len(reqLog) :
              /\ reqLog[k].page = k
              /\ reqLog[k].pagination = ""
              /\ reqLog[k].cursor = NoParam
        /\ (driver = "async" /\ pc = "loop") => page_num = Len(reqLog) + 1
        /\ (driver # "async" /\ ~Stopped) =>
              page_state.next_page = Number(Len(reqLog) + 1)

\* three pages have been requested without a failure
C7_Witness ==
    /\ ~keyset
    /\ FailureFree
    /\ driver = "iter"
    /\ Len(reqLog) = 3
    /\ reqLog[3].page = 3

----------------------------------------------------------------------------
(* C8: no dropped or duplicated records.  In offset mode under All, with   *)
(* every page served honestly from a static data set (page k holds the     *)
(* items (k-1)*1000+1 .. up to the end of the set), the items handed over  *)
(* at any moment are 1, 2, 3, ... each once and in order, the items still  *)
(* buffered are the following ones, and the finished query has returned    *)
(* exactly the N items of the set, also for N = 0 and N a multiple of 1000.*)
C8_NoDropNoDuplicate ==
    (~keyset /\ pagination = All /\ fault = "none" /\ FailureFree) =>
        /\ driver = "async" =>
              /\ pc = "loop" => results = Iota(Fetched)
              /\ pc = "done" => ret = Ok(Iota(Fetched))
        /\ driver # "async" =>
              /\ Len(yielded) + Len(current_page) = Fetched
              /\ \A i \in 1..Len(yielded) : yielded[i] = i
              /\ \A j \in 1..Len(current_page) : current_page[j] = Fetched + 1 - j
        /\ Returned =>
              /\ ReturnedItems = Iota(Fetched)
              /\ Last(pageLog) < MAX_PAGE_SIZE

\* a data set of exactly 1000 items: a full page, an empty page, 1000 items
C8_Witness ==
    /\ ~keyset
    /\ pagination = All
    /\ driver = "collect"
    /\ pageLog = <<MAX_PAGE_SIZE, 0>>
    /\ ret = Ok(Iota(MAX_PAGE_SIZE))

\* an empty data set: one request, no item
C8_EmptyWitness ==
    /\ ~keyset
    /\ pagination = All
    /\ pageLog = <<0>>
    /\ Returned
    /\ ReturnedItems = <<>>

----------------------------------------------------------------------------
(* C9 as stated, with the model's request bound as the "finitely many":    *)
(* under All, when every response is the same full page, the query is over *)
(* by the time MaxRequests such pages have been returned.                  *)
C9_Original ==
    (/\ pagination = All
     /\ fault = "none"
     /\ Len(pageLog) = MaxRequests
     /\ \A i \in 1..Len(pageLog) : pageLog[i] = MAX_PAGE_SIZE) => Stopped

(* C9, amended: under All a full page (1000 items) never ends the query by *)
(* itself.  In offset mode the driver goes on to the next page after every *)
(* full page, so it does not terminate against a server that returns a     *)
(* full page on every request; in keyset mode it stops after a full page   *)
(* exactly when the response carries no continuation URL.                  *)
C9_FullPageContinues ==
    (/\ pagination = All
     /\ fault = "none"
     /\ LastParsed
     /\ Last(pageLog) = MAX_PAGE_SIZE) =>
        (Stopped <=> (keyset /\ lastRsp.link # "next"))

\* offset mode: MaxRequests full pages returned and the driver still goes on
C9_Witness ==
    /\ ~keyset
    /\ pagination = All
    /\ driver = "async"
    /\ Len(pageLog) = MaxRequests
    /\ \A i \in 1..Len(pageLog) : pageLog[i] = MAX_PAGE_SIZE
    /\ pc = "loop"

----------------------------------------------------------------------------
(* C10: eager fail-fast.  In query_async and in query, the first response  *)
(* that fails (transport error, unparsable Link header in keyset mode,     *)
(* body not JSON, non-success status, items that do not coerce) ends the   *)
(* query with that error: no request follows the failed one, and the error *)
(* carries none of the items of the earlier pages.                         *)
RawFailures(rsp) ==
    {k \in {"Transport", "LinkHeader", "ServiceError", "Remote", "DataType"} :
        \/ k = "Transport" /\ ~rsp.transport
        \/ k = "LinkHeader" /\ keyset /\ rsp.link = "bad"
        \/ k = "ServiceError" /\ ~rsp.json
        \/ k = "Remote" /\ ~rsp.success
        \/ k = "DataType" /\ ~rsp.coerces}

C10_EagerFailFast ==
    driver \in {"async", "collect"} =>
        /\ \A i \in 1..(Len(pageLog) - 1) : pageLog[i] # NoPage
        /\ (reqLog # <<>> /\ RawFailures(lastRsp) # {}) =>
              /\ pc = "done"
              /\ ret.tag = "Err"
              /\ ret.kind \in RawFailures(lastRsp)
              /\ ret.items = <<>>

\* query_async has failed on its second page, after a full first page
C10_Witness ==
    /\ driver = "async"
    /\ pageLog = <<MAX_PAGE_SIZE, NoPage>>
    /\ ret = Err("DataType")

----------------------------------------------------------------------------
\* number of pages parsed so far
ParsedPages == Cardinality({i \in 1..Len(pageLog) : pageLog[i] # NoPage})

(* C11: pages are fetched strictly in sequence.  A step sends at most one  *)
(* request, and when a request is sent every earlier request has been      *)
(* answered and its response wholly processed: its items are appended to   *)
(* the accumulator (query_async) or were buffered (lazy), and the page     *)
(* counter or cursor already stands at the page now requested.             *)
C11_StrictSequence ==
    [][reqLog' # reqLog =>
          /\ Len(reqLog') = Len(reqLog) + 1
          /\ SubSeq(reqLog', 1, Len(reqLog)) = reqLog
          /\ Len(pageLog) = Len(reqLog)
          /\ driver = "async" =>
                /\ Len(results) = Fetched
                /\ ~keyset => page_num = ParsedPages + 1
                /\ (keyset /\ reqLog # <<>>) =>
                      next_url = Some(NextLink(Last(reqLog), lastRsp))
          /\ driver # "async" =>
                /\ page_state.total_results = Fetched
                /\ Len(yielded) + Len(current_page) = Fetched
                /\ ~keyset => page_state.next_page = Number(ParsedPages + 1)
                /\ (keyset /\ LastParsed) =>
                      page_state.next_page =
                          KeysetNext(NextLink(Last(reqLog), lastRsp))]_vars

\* the lazy iterator has sent its third request, after two full pages
C11_Witness ==
    /\ driver = "iter"
    /\ Len(reqLog) = 3
    /\ pageLog[1] = MAX_PAGE_SIZE
    /\ pageLog[2] = MAX_PAGE_SIZE
    /\ page_state.total_results >= 2 * MAX_PAGE_SIZE

----------------------------------------------------------------------------
(* C12: the lazy iterator never pre-fetches.  A call of next() sends a     *)
(* request only when the one-page buffer is empty, and then exactly one;   *)
(* at that moment every item of the pages fetched before has been yielded; *)
(* a call that finds items in the buffer yields one of them and sends      *)
(* nothing.  (Requests are sent by calls of next() only: a consumer that   *)
(* stops calling takes no step.)                                           *)
C12_NoPrefetch ==
    [][driver # "async" =>
          /\ current_page # <<>> =>
                /\ reqLog' = reqLog
                /\ yielded' = Append(yielded, Last(current_page))
          /\ reqLog' # reqLog =>
                /\ current_page = <<>>
                /\ Len(reqLog') = Len(reqLog) + 1
                /\ Len(yielded) = Fetched
                /\ Len(yielded') <= Len(yielded) + 1]_vars

\* the second page has just been requested, after the 1000 items of the first
C12_Witness ==
    /\ driver = "iter"
    /\ pageLog = <<MAX_PAGE_SIZE, 7>>
    /\ Len(yielded) = MAX_PAGE_SIZE + 1
    /\ Len(current_page) = 6

----------------------------------------------------------------------------
\* the items of the first k responses as the server sent them, page after
\* page in fetch order (a failed fetch contributes nothing)
RECURSIVE ServerOrder(_)
ServerOrder(k) ==
    IF k = 0 THEN <<>>
    ELSE ServerOrder(k - 1)
         \o (IF pageLog[k] = NoPage THEN <<>>
             ELSE [i \in 1..pageLog[k] |-> StartPos(reqLog[k]) + i])

(* C13: order preservation.  The items the lazy iterator has yielded,      *)
(* followed by the buffered items in the order they will be popped, are    *)
(* the pages in fetch order, each page in server order; query_async        *)
(* accumulates and returns the same concatenation, and so does query.      *)
C13_OrderPreserved ==
    LET all == ServerOrder(Len(pageLog)) IN
    /\ driver # "async" =>
          /\ yielded \o [i \in 1..Len(current_page) |->
                            current_page[Len(current_page) + 1 - i]] = all
          /\ (pc = "done" /\ ret.tag = "Ok") => ret.items = all
    /\ driver = "async" =>
          /\ pc = "loop" => results = all
          /\ (pc = "done" /\ ret.tag = "Ok") => ret.items = all

\* two pages of a keyset query, half popped: 1000 + 3 items yielded, 4 buffered
C13_Witness ==
    /\ driver = "iter"
    /\ keyset
    /\ pageLog = <<MAX_PAGE_SIZE, 7>>
    /\ Len(yielded) = MAX_PAGE_SIZE + 3
    /\ current_page = <<1007, 1006, 1005, 1004>>

\* query_async has returned two pages in fetch order
C13_EagerWitness ==
    /\ driver = "async"
    /\ pageLog = <<MAX_PAGE_SIZE, 20>>
    /\ ret = Ok(Iota(MAX_PAGE_SIZE + 20))

----------------------------------------------------------------------------
\* a URL the driver built itself (not a continuation URL of the server)
DriverBuilt(url) == url.cursor = NoParam

(* C15: page-size clamp.  The per_page of every URL a driver builds is     *)
(* 1000 under All and min(n, 1000) under Limit(n); it never exceeds 1000   *)
(* and is the same on every page request the driver builds in one query.   *)
C15_PageSizeClamp ==
    \A k \in 1..Len(reqLog) :
        DriverBuilt(reqLog[k]) =>
            /\ pagination.kind = "All" => reqLog[k].per_page = 1000
            /\ pagination.kind = "Limit" =>
                  reqLog[k].per_page =
                      (IF pagination.limit <= 1000 THEN pagination.limit ELSE 1000)
            /\ reqLog[k].per_page <= 1000
            /\ \A j \in 1..Len(reqLog) :
                  DriverBuilt(reqLog[j]) => reqLog[j].per_page = reqLog[k].per_page

\* Limit(2500) in offset mode: three driver-built requests, each per_page 1000
C15_Witness ==
    /\ pagination = Limit(2500)
    /\ ~keyset
    /\ Len(reqLog) = 3
    /\ \A k \in 1..3 : DriverBuilt(reqLog[k]) /\ reqLog[k].per_page = 1000

\* Limit(45): the driver asks for 45 items a page
C15_SmallWitness ==
    /\ pagination = Limit(45)
    /\ reqLog # <<>>
    /\ reqLog[1].per_page = 45

----------------------------------------------------------------------------
(* C14: page-size bound.  For every u16 s, PageLimit::new(s) and the       *)
(* builder's limit(s) succeed exactly when s <= 1000, and the builder then *)
(* holds s; otherwise they fail with the pagination error ExceedLimit, at  *)
(* the call itself, the limit of the builder stays as it was (unset, or    *)
(* the value of an earlier call), and the client is not called.            *)
C14_PageSizeBound ==
    /\ [](\A i \in 1..Len(limit_args) :
            LET s == limit_args[i] IN
            /\ s <= 1000 => PageLimit_new(s) = LimitOk(s)
            /\ s > 1000 => PageLimit_new(s) = ExceedLimit)
    /\ [][limit_args # <<>> =>
            LET s == Head(limit_args) IN
            /\ s <= 1000 =>
                  /\ limit_ret'.tag = "Ok"
                  /\ builder_limit' = Some(s)
            /\ s > 1000 =>
                  /\ limit_ret' = ExceedLimit
                  /\ builder_limit' = builder_limit
            /\ clientLog' = clientLog
            /\ sent' = sent]_vars

\* limit(5) has succeeded and a later call above the ceiling has failed:
\* the builder still holds 5
C14_Witness ==
    /\ limit_args = <<>>
    /\ limit_ret = ExceedLimit
    /\ builder_limit = Some(5)

\* limit(1000) on a fresh builder succeeds
C14_CeilingWitness ==
    /\ limit_args = <<>>
    /\ limit_ret = LimitOk(1000)
    /\ builder_limit = Some(1000)

\* a first call above the ceiling leaves the limit unset
C14_UnsetWitness ==
    /\ limit_args = <<>>
    /\ limit_ret = ExceedLimit
    /\ builder_limit = None

----------------------------------------------------------------------------
\* the dispatch has sent its request and the transport has returned a response
Answered == reply.transport /\ answer # NotReturned

RemoteKinds == {"Marketstack", "MarketstackObject", "MarketstackUnrecognized"}

(* C16: dispatch classification.  Every response a plain dispatch receives *)
(* is classified, by fixed precedence: a body that is not valid JSON (an   *)
(* empty body too) gives the service error with the status and the raw     *)
(* bytes of the response, whatever the status; valid JSON with a           *)
(* non-success status gives a remote error, never a data-type error;       *)
(* valid JSON with a success status that does not coerce gives the         *)
(* DataType error naming the target type; otherwise the value is returned. *)
C16_DispatchClassification ==
    (form = "query" /\ Answered) =>
        LET json == reply.body.kind = "json"
            success == reply.status \in 200..299
        IN  /\ ~json =>
                  /\ answer.tag = "Err"
                  /\ answer.kind = "MarketstackService"
                  /\ answer.payload = [status |-> reply.status, data |-> reply.body]
            /\ (json /\ ~success) =>
                  /\ answer.tag = "Err"
                  /\ answer.kind \in RemoteKinds
            /\ (json /\ success /\ ~reply.body.coerces) =>
                  /\ answer.tag = "Err"
                  /\ answer.kind = "DataType"
                  /\ answer.payload.typename = TargetType
            /\ (json /\ success /\ reply.body.coerces) =>
                  answer = Returns([value |-> reply.body])

\* status 404, valid JSON that would not coerce to T: a remote error
C16_Witness ==
    /\ form = "query"
    /\ Answered
    /\ reply.status = 404
    /\ reply.body.kind = "json"
    /\ ~reply.body.coerces
    /\ answer.kind \in RemoteKinds

\* status 200 and an empty body: the service error with status 200
C16_EmptyWitness ==
    /\ form = "query"
    /\ Answered
    /\ reply.status = 200
    /\ reply.body.kind = "empty"
    /\ answer.kind = "MarketstackService"
    /\ answer.payload.status = 200

----------------------------------------------------------------------------
(* C17: remote error extraction.  From the JSON payload of a non-success   *)
(* response the field `message` is taken if present, else the field        *)
(* `error`; a string gives the remote-message error with that text, any    *)
(* other value the remote-object error holding that value, and a payload   *)
(* with neither field the unrecognized error holding the whole payload.    *)
(* With both fields present `message` wins, a string or not.               *)
C17_RemoteErrorExtraction ==
    (/\ form \in {"query", "raw"}
     /\ Answered
     /\ reply.body.kind = "json"
     /\ reply.status \notin 200..299) =>
        LET m == reply.body.message
            e == reply.body.error
        IN  /\ (m.present /\ m.str) =>
                  answer = Failed("Marketstack", [msg |-> m.val])
            /\ (m.present /\ ~m.str) =>
                  answer = Failed("MarketstackObject", [obj |-> m])
            /\ (~m.present /\ e.present /\ e.str) =>
                  answer = Failed("Marketstack", [msg |-> e.val])
            /\ (~m.present /\ e.present /\ ~e.str) =>
                  answer = Failed("MarketstackObject", [obj |-> e])
            /\ (~m.present /\ ~e.present) =>
                  answer = Failed("MarketstackUnrecognized", [obj |-> reply.body])

\* both fields present, `message` not a string: the object error holds it
C17_Witness ==
    /\ form = "query"
    /\ Answered
    /\ reply.status = 404
    /\ reply.body.message = Field(FALSE, "M")
    /\ reply.body.error = Field(TRUE, "e")
    /\ answer = Failed("MarketstackObject", [obj |-> Field(FALSE, "M")])

\* only `error` present: its text is the message
C17_ErrorWitness ==
    /\ Answered
    /\ ~reply.body.message.present
    /\ answer = Failed("Marketstack", [msg |-> "e"])

----------------------------------------------------------------------------
(* C18: missing credential.  A plain dispatch on a client without a        *)
(* credential returns the Auth (missing auth) error; the URL has not been  *)
(* resolved and nothing was handed to the transport.                       *)
C18_AuthBeforeAnything ==
    (form = "query" /\ auth = None /\ answer # NotReturned) =>
        /\ answer = Failed("Auth", [source |-> "MissingAuth"])
        /\ sent = <<>>
        /\ \A i \in 1..Len(clientLog) :
              clientLog[i] \notin {"rest_endpoint", "rest"}

\* no credential and an endpoint whose URL does not resolve: Auth is reported
C18_Witness ==
    /\ form = "query"
    /\ auth = None
    /\ fault = "url"
    /\ answer.kind = "Auth"

----------------------------------------------------------------------------
(* C19: every request handed to the transport carries the token of the     *)
(* client as the query pair access_key, whichever query form sends it.     *)
C19_AccessKeyOnEveryRequest ==
    auth # None =>
        \A i \in 1..Len(sent) :
            \E j \in 1..Len(sent[i].query) :
                sent[i].query[j] = <<"access_key", auth[1]>>

----------------------------------------------------------------------------
(* C20: a successful call through Ignore returns unit and has sent exactly *)
(* the request (method, URL with every query pair, headers, body) that a   *)
(* plain dispatch of the same endpoint sends on the same client.           *)
C20_IgnoreSameRequest ==
    (form = "ignore" /\ auth # None /\ answer.tag = "Ok") =>
        /\ answer = Returns([unit |-> TRUE])
        /\ sent = <<Request(endpoint.method, endpoint.path,
                            Append(endpoint.parameters, <<"access_key", auth[1]>>),
                            ContentType(endpoint), BodyBytes(endpoint))>>

----------------------------------------------------------------------------
C21_ErrorWitness ==
    /\ form = "raw"
    /\ Answered
    /\ reply.status = 404
    /\ reply.body.message = Field(TRUE, "m")
    /\ answer = Failed("Marketstack", [msg |-> "m"])

----------------------------------------------------------------------------
\* number of calls of Client::rest / rest_async the dispatch has made
RoundTrips == Cardinality({i \in 1..Len(clientLog) : clientLog[i] = "rest"})

(* C22 as stated: every call of the plain dispatch makes exactly one       *)
(* network round trip.                                                     *)
C22_Original ==
    (form = "query" /\ answer # NotReturned) =>
        (RoundTrips = 1 /\ Len(sent) = 1)

(* C22, amended: a call of the plain dispatch makes exactly one network    *)
(* round trip, whatever the response and its classification (transport     *)
(* error included), unless it fails before the send (no credential, URL    *)
(* resolution, body encoding): then it makes none.  It never makes two.    *)
C22_OneRoundTrip ==
    (form = "query" /\ answer # NotReturned) =>
        LET n == IF auth = None \/ fault # "none" THEN 0 ELSE 1 IN
        /\ RoundTrips = n
        /\ Len(sent) = n
        /\ n = 0 => answer.kind \in {"Auth", "UrlParse", "Body"}

\* one round trip for a response classified as a service error
C22_Witness ==
    /\ form = "query"
    /\ Answered
    /\ answer.kind = "MarketstackService"
    /\ RoundTrips = 1
    /\ Len(sent) = 1

\* no round trip when body() fails
C22_NoSendWitness ==
    /\ form = "query"
    /\ answer.kind = "Body"
    /\ sent = <<>>

----------------------------------------------------------------------------
\* the setters called so far, whatever their order and number
SetOps == {setterLog[i].op : i \in 1..Len(setterLog)}

(* C23: Tickers builder validation.  build() fails, with a message that    *)
(* says "Invalid ...", exactly when more than one of eod, splits and       *)
(* dividends has been set, and succeeds when none or one has been set, in  *)
(* whatever order (and however often) the setters were called.             *)
C23_TickersValidation ==
    (target = "tickers" /\ built # NotBuilt) =>
        LET n == Cardinality(SetOps \cap {"eod", "splits", "dividends"}) IN
        /\ n > 1 =>
              /\ built.tag = "Err"
              /\ built.msg = "Invalid combinations of eod, splits or dividends"
        /\ n <= 1 => built.tag = "Ok"

\* splits, then eod: build() fails
C23_Witness ==
    /\ target = "tickers"
    /\ Len(setterLog) = 2
    /\ setterLog[1].op = "splits"
    /\ setterLog[2].op = "eod"
    /\ built.tag = "Err"

\* dividends set twice and nothing else: build() succeeds
C23_OkWitness ==
    /\ target = "tickers"
    /\ Len(setterLog) = 2
    /\ SetOps = {"dividends"}
    /\ built.tag = "Ok"

----------------------------------------------------------------------------
\* the symbols named in the calls of symbol() and symbols() so far
AddedSymbols ==
    UNION {{setterLog[i].arg[j] : j \in 1..Len(setterLog[i].arg)} :
              i \in 1..Len(setterLog)}

(* C24: symbol accumulation has set semantics.  After any sequence of      *)
(* symbol() / symbols() calls the built endpoint's query holds exactly one *)
(* `symbols` pair per distinct symbol added, and no other pair; the pairs  *)
(* stand in ascending order of the symbols, whatever the order of calls.   *)
C24_SymbolSetSemantics ==
    (target = "eod" /\ built # NotBuilt) =>
        LET q == built.parameters IN
        /\ built.tag = "Ok"
        /\ Len(q) = Cardinality(AddedSymbols)
        /\ \A s \in AddedSymbols :
              Cardinality({j \in 1..Len(q) : q[j] = <<"symbols", s>>}) = 1
        /\ \A j \in 1..Len(q) : q[j][1] = "symbols" /\ q[j][2] \in AddedSymbols
        /\ \A i, j \in 1..Len(q) : i < j => Rank(q[i][2]) < Rank(q[j][2])

\* symbol("GOOG"), symbols(["GOOG", "AAPL"]), symbol("AAPL"): two pairs
C24_Witness ==
    /\ target = "eod"
    /\ Len(setterLog) = 3
    /\ setterLog[1] = Call("symbol", <<"GOOG">>)
    /\ setterLog[2] = Call("symbols", <<"GOOG", "AAPL">>)
    /\ setterLog[3] = Call("symbol", <<"AAPL">>)
    /\ built.parameters = <<<<"symbols", "AAPL">>, <<"symbols", "GOOG">>>>

\* no symbol named: no pair
C24_EmptyWitness ==
    /\ target = "eod"
    /\ setterLog = <<Call("symbols", <<>>)>>
    /\ built = BuildOk(<<"eod">>, <<>>)

----------------------------------------------------------------------------
\* the argument of the latest call of the setter op, None when never called
LatestArg(op) ==
    LET I == {i \in 1..Len(setterLog) : setterLog[i].op = op} IN
    IF I = {} THEN None
    ELSE Some(setterLog[CHOOSE i \in I : \A j \in I : j <= i].arg[1])

(* C30: Intraday path selection.  The path of a built Intraday endpoint is *)
(* intraday/latest exactly when latest was requested as true,              *)
(* intraday/<date> exactly when a date was set, and intraday otherwise     *)
(* (so with latest(false) and no date); build() rejects only a date        *)
(* together with latest = true.                                            *)
C30_IntradayPath ==
    (target = "intraday" /\ built # NotBuilt) =>
        LET wantLatest == LatestArg("latest") = Some(TRUE)
            date == LatestArg("date")
        IN  /\ built.tag = "Err" <=> (wantLatest /\ date # None)
            /\ built.tag = "Ok" =>
                  built.path = IF wantLatest THEN <<"intraday", "latest">>
                               ELSE IF date # None THEN <<"intraday", date[1]>>
                               ELSE <<"intraday">>

----------------------------------------------------------------------------
\* query_async has returned, and the drain of the lazy iterator is over
BothOver == pc = "done" /\ ~LazyRuns

(* C25: eager and lazy pagination are equivalent.  For one endpoint, one   *)
(* policy and a deterministic server, query_async and the drain of the     *)
(* lazy iterator send the same sequence of request URLs, and end with the  *)
(* same result: the same items in the same order, or an error of the same  *)
(* kind at the same page.                                                  *)
C25_EagerLazyEquivalent ==
    /\ \A i \in 1..Min(Len(reqLog), Len(lazyLog)) : reqLog[i] = lazyLog[i]
    /\ BothOver =>
          /\ reqLog = lazyLog
          /\ ret.tag = "Ok" => (out = OutNone /\ yielded = ret.items)
          /\ ret.tag = "Err" => out = OutErr(ret.kind)

\* both have returned the 2007 items of three pages
C25_Witness ==
    /\ driver = "pair"
    /\ BothOver
    /\ Len(reqLog) = 3
    /\ Len(lazyLog) = 3
    /\ ret.tag = "Ok"
    /\ Len(ret.items) = 2 * MAX_PAGE_SIZE + 7
    /\ out = OutNone

\* both have failed on the second page
C25_ErrorWitness ==
    /\ driver = "pair"
    /\ BothOver
    /\ Len(lazyLog) = 2
    /\ ret = Err("Remote")
    /\ out = OutErr("Remote")

----------------------------------------------------------------------------
\* max(1, ceil(n / 1000))
PageBound(n) ==
    LET c == (n + MAX_PAGE_SIZE - 1) \div MAX_PAGE_SIZE IN IF c < 1 THEN 1 ELSE c

(* C26: under Limit(n), whatever the server answers and whichever driver   *)
(* runs, at most max(1, ceil(n / 1000)) requests are answered by a page    *)
(* that parses: once that many pages have been parsed the driver has       *)
(* stopped, and a stopped driver sends nothing.  For n <= 1000 (0          *)
(* included) the first parsed page ends the query, however many items it   *)
(* holds: the cursor is Done, and a query that returns has made exactly    *)
(* one such request.                                                       *)
C26_LimitRequestBound ==
    /\ [](pagination.kind = "Limit" =>
            /\ ParsedPages <= PageBound(pagination.limit)
            /\ ParsedPages >= PageBound(pagination.limit) => Stopped
            /\ (pagination.limit <= MAX_PAGE_SIZE /\ Returned) => ParsedPages = 1)
    /\ [][(pagination.kind = "Limit" /\ Stopped) => reqLog' = reqLog]_vars

\* Limit(2500): three full pages parsed, the lazy cursor is Done
C26_Witness ==
    /\ pagination = Limit(2500)
    /\ driver = "iter"
    /\ pageLog = <<MAX_PAGE_SIZE, MAX_PAGE_SIZE, MAX_PAGE_SIZE>>
    /\ page_state.next_page = Done

\* Limit(0): one request, answered by a page of no items, and the query is over
C26_ZeroWitness ==
    /\ pagination = Limit(0)
    /\ pageLog = <<0>>
    /\ Stopped
    /\ Returned

\* Limit(45): a page of 7 items ends query_async
C26_SmallWitness ==
    /\ pagination = Limit(45)
    /\ driver = "async"
    /\ pageLog = <<7>>
    /\ ret.tag = "Ok"

----------------------------------------------------------------------------
(* C27: a failed page fetch of the lazy driver leaves the cursor as it     *)
(* was.  A call of next() that returns an error (URL resolution, body      *)
(* encoding, transport, Link header, body not JSON, non-success status,    *)
(* coercion) changes neither next_page nor total_results; the two are      *)
(* written only by a call whose request was answered by a response with    *)
(* none of these failures.                                                 *)
C27_FailedFetchKeepsCursor ==
    [][(driver \in {"iter", "collect"}) =>
          (/\ out'.tag = "Err" => page_state' = page_state
           /\ (reqLog' # reqLog /\ RawFailures(lastRsp') # {}) =>
                 (out'.tag = "Err" /\ page_state' = page_state)
           /\ page_state' # page_state =>
                 (reqLog' # reqLog /\ RawFailures(lastRsp') = {}))]_vars

\* the second fetch failed: the cursor still stands at page 2, 1000 items counted
C27_Witness ==
    /\ driver = "iter"
    /\ ~keyset
    /\ pageLog = <<MAX_PAGE_SIZE, NoPage>>
    /\ out.tag = "Err"
    /\ page_state = [total_results |-> MAX_PAGE_SIZE, next_page |-> Number(2)]

\* the URL could not be resolved: no request, the cursor as constructed
C27_UrlWitness ==
    /\ driver = "iter"
    /\ out = OutErr("UrlResolution")
    /\ reqLog = <<>>
    /\ page_state = LazilyPagedState_new

----------------------------------------------------------------------------
(* C28: in the lazy driver total_results is always the sum of the sizes of *)
(* the pages parsed so far, and a parsed page of no items leaves the       *)
(* cursor Done.  So next() returns None only with the cursor Done, and     *)
(* once it has returned None every later call returns None and sends no    *)
(* request.                                                                *)
C28_TotalAndEnd ==
    /\ [](driver \in {"iter", "collect"} =>
            /\ page_state.total_results = Fetched
            /\ (LastParsed /\ Last(pageLog) = 0) => page_state.next_page = Done
            /\ out = OutNone => page_state.next_page = Done)
    /\ [][(driver \in {"iter", "collect"} /\ out = OutNone) =>
            (out' = OutNone /\ reqLog' = reqLog)]_vars

\* a full page, a failed fetch, then the second page fetched again and
\* holding no item: 1000 items counted, the cursor Done, None returned
C28_Witness ==
    /\ driver = "iter"
    /\ pagination = All
    /\ pageLog = <<MAX_PAGE_SIZE, NoPage, 0>>
    /\ page_state = [total_results |-> MAX_PAGE_SIZE, next_page |-> Done]
    /\ out = OutNone
    /\ Len(yielded) = MAX_PAGE_SIZE

\* Limit(0): the first page holds no item and ends the sequence
C28_ZeroWitness ==
    /\ driver = "iter"
    /\ pagination = Limit(0)
    /\ pageLog = <<0>>
    /\ page_state.next_page = Done
    /\ out = OutNone

----------------------------------------------------------------------------
(* C29: the cursor lock in one fetch of the lazy driver.  The read guard   *)
(* page_url takes is released before the write lock of next_page is asked  *)
(* for, and no guard is held while the request is with the transport or    *)
(* between two calls, so neither read() nor write() ever waits for a guard *)
(* of the same query.  page_url goes on to build a URL (and to apply_to)   *)
(* only with a cursor that is not Done.                                    *)
C29_LockDiscipline ==
    /\ [](driver = "state" =>
            /\ at \in {"idle", "build_request", "rest", "process_response",
                        "next_page"} => guard = "none"
            /\ at = "page_url" => guard = "read"
            /\ at = "write" => guard = "write")
    /\ [][(at = "page_url" /\ at' = "build_request") =>
            page_state.next_page # Done]_vars

\* the second fetch of a query holds the write guard, about to move the cursor
C29_Witness ==
    /\ driver = "state"
    /\ Len(reqLog) = 2
    /\ at = "write"
    /\ guard = "write"
    /\ page_state.total_results = MAX_PAGE_SIZE

\* the second request is about to be sent, no guard held
C29_SendWitness ==
    /\ driver = "state"
    /\ Len(reqLog) = 1
    /\ page_state.total_results = MAX_PAGE_SIZE
    /\ at = "rest"
    /\ guard = "none"

\* a call on a Done cursor has returned the empty page
C29_DoneWitness ==
    /\ driver = "state"
    /\ page_state.next_page = Done
    /\ at = "idle"
    /\ out = OutNone
    /\ Len(yielded) > 0

====
